---- MODULE Spec2Model ----
(***************************************************************************)
(* A model of the schema-to-type compiler of zapatos:                      *)
(*   src/generate/tables.ts   (relation listing, column classification,    *)
(*                             relation blocks, cross-table types)         *)
(*   src/generate/tsOutput.ts (tsForConfig: the run, its pool, its         *)
(*                             fan-out over schemas and relations)         *)
(*                                                                         *)
(* Text is modelled as a sequence of tokens.  A literal fragment of a      *)
(* template is one token ("Date", " | null", ": "); a name the code        *)
(* inspects character by character (relation, schema, type and domain      *)
(* names) is spelled one character per token, so that the regular          *)
(* expressions of transformCustomType and the code-unit comparison of      *)
(* Array.prototype.sort can be computed on it.                             *)
(***************************************************************************)
EXTENDS Integers, Sequences, FiniteSets, TLC

VARIABLES
  config,       \* CompleteConfig of the run: schemas, columnOptions, customTypesTransform
  catalog,      \* the catalog snapshot the pool's queries answer from
  main,         \* position of tsForConfig
  pool,         \* state of the pg.Pool
  endCalls,     \* number of calls of pool.end()
  spc,          \* position of each schema's async callback
  tables,       \* per schema: the filtered relation list
  rpc,          \* position of each definitionForTableInSchema call
  customTypes,  \* the shared CustomTypes out-parameter
  tableDefs,    \* per schema, per relation index: the fields collected / the block returned
  schemaData,   \* per schema: the { schemaDef, tables } the callback returned
  out,          \* what tsForConfig computed: ts and customTypeSourceFiles
  failures,     \* number of catalog queries that have failed
  colIn,        \* last column row handed to the forEach body
  colOut,       \* what the forEach body pushed for it
  aggIn,        \* last relation list handed to crossTableTypesForTables
  aggOut        \* the cross-table types it returned

runVars == <<config, catalog, main, pool, endCalls, spc, tables, rpc,
             tableDefs, schemaData, out, failures>>
colVars == <<colIn, colOut>>
aggVars == <<aggIn, aggOut>>
vars == <<config, catalog, main, pool, endCalls, spc, tables, rpc, customTypes,
          tableDefs, schemaData, out, failures, colIn, colOut, aggIn, aggOut>>

----------------------------------------------------------------------------
(* Bounds *)

MaxRels == 3        \* relations in the catalog snapshot of a run
MaxFailures == 1    \* catalog queries that fail in a run
MaxAggLen == 4      \* relations handed to crossTableTypesForTables

----------------------------------------------------------------------------
(* Characters and text *)

Range(s) == {s[i] : i \in 1..Len(s)}

\* \w of the regular expressions: [A-Za-z0-9_]
WordChars == {"a", "b", "d", "e", "g", "i", "m", "n", "o", "p", "s", "t", "u", "x", "y", "z",
              "A", "B", "D", "E", "G", "I", "M", "N", "O", "P", "S", "T", "U", "X", "Y", "Z",
              "0", "1", "2", "3", "4", "_"}

\* String.prototype.toUpperCase on one character
ToUpperCase(c) ==
  CASE c = "a" -> "A" [] c = "b" -> "B" [] c = "d" -> "D" [] c = "e" -> "E"
    [] c = "g" -> "G" [] c = "i" -> "I" [] c = "m" -> "M" [] c = "n" -> "N"
    [] c = "o" -> "O" [] c = "p" -> "P" [] c = "s" -> "S" [] c = "t" -> "T"
    [] c = "u" -> "U" [] c = "x" -> "X" [] c = "y" -> "Y" [] c = "z" -> "Z"
    [] OTHER -> c

\* lower() of the relation listing query, on one character
ToLowerCase(c) ==
  CASE c = "A" -> "a" [] c = "B" -> "b" [] c = "D" -> "d" [] c = "E" -> "e"
    [] c = "G" -> "g" [] c = "I" -> "i" [] c = "M" -> "m" [] c = "N" -> "n"
    [] c = "O" -> "o" [] c = "P" -> "p" [] c = "S" -> "s" [] c = "T" -> "t"
    [] c = "U" -> "u" [] c = "X" -> "x" [] c = "Y" -> "y" [] c = "Z" -> "z"
    [] OTHER -> c

Lower(s) == [i \in 1..Len(s) |-> ToLowerCase(s[i])]

\* UTF-16 code unit of a character (what the default sort compares)
CodeUnit(c) ==
  CASE c = " " -> 32 [] c = "*" -> 42 [] c = "-" -> 45 [] c = "." -> 46
    [] c = "0" -> 48 [] c = "1" -> 49 [] c = "2" -> 50 [] c = "3" -> 51 [] c = "4" -> 52
    [] c = "A" -> 65 [] c = "B" -> 66 [] c = "D" -> 68 [] c = "P" -> 80
    [] c = "T" -> 84 [] c = "U" -> 85 [] c = "X" -> 88 [] c = "_" -> 95
    [] c = "a" -> 97 [] c = "b" -> 98 [] c = "d" -> 100 [] c = "p" -> 112
    [] c = "t" -> 116 [] c = "u" -> 117 [] c = "x" -> 120

CodeUnits(s) == [i \in 1..Len(s) |-> CodeUnit(s[i])]

\* k < l for two sequences of numbers, position by position; a proper prefix is smaller
RECURSIVE LexLess(_, _)
LexLess(k, l) ==
  IF l = <<>> THEN FALSE
  ELSE IF k = <<>> THEN TRUE
  ELSE IF Head(k) # Head(l) THEN Head(k) < Head(l)
  ELSE LexLess(Tail(k), Tail(l))

\* Array.prototype.sort is stable: an element goes after every element not greater than it
RECURSIVE InsertByKey(_, _)
InsertByKey(p, sorted) ==
  IF sorted = <<>> THEN <<p>>
  ELSE IF LexLess(p.k, Head(sorted).k) THEN <<p>> \o sorted
  ELSE <<Head(sorted)>> \o InsertByKey(p, Tail(sorted))

RECURSIVE SortPairs(_, _)
SortPairs(pairs, acc) ==
  IF pairs = <<>> THEN acc ELSE SortPairs(Tail(pairs), InsertByKey(Head(pairs), acc))

\* items sorted by the keys given for them, position by position
SortByKey(items, keys) ==
  LET pairs == [i \in 1..Len(items) |-> [k |-> keys[i], v |-> items[i]]]
      sorted == SortPairs(pairs, <<>>)
  IN  [i \in 1..Len(sorted) |-> sorted[i].v]

\* [].concat(...seqs)
RECURSIVE Concat(_)
Concat(seqs) == IF seqs = <<>> THEN <<>> ELSE Head(seqs) \o Concat(Tail(seqs))

\* texts.join(sep)
RECURSIVE Join(_, _)
Join(texts, sep) ==
  IF texts = <<>> THEN <<>>
  ELSE IF Len(texts) = 1 THEN Head(texts)
  ELSE Head(texts) \o sep \o Join(Tail(texts), sep)

\* arr.filter(keep)
RECURSIVE Filter(_, _)
Filter(arr, keep) ==
  IF arr = <<>> THEN <<>>
  ELSE (IF Head(arr) \in keep THEN <<Head(arr)>> ELSE <<>>) \o Filter(Tail(arr), keep)

----------------------------------------------------------------------------
(* Custom-Type Namer: transformCustomType *)

\* customType.replace(/\W+/g, rep): every maximal run of non-word characters becomes rep
RECURSIVE ReplaceNonWordRuns(_, _, _)
ReplaceNonWordRuns(s, rep, inRun) ==
  IF s = <<>> THEN <<>>
  ELSE IF Head(s) \in WordChars THEN <<Head(s)>> \o ReplaceNonWordRuns(Tail(s), rep, FALSE)
  ELSE IF inRun THEN ReplaceNonWordRuns(Tail(s), rep, TRUE)
  ELSE rep \o ReplaceNonWordRuns(Tail(s), rep, TRUE)

\* s.replace(/_[^_]/g, m => m.charAt(1).toUpperCase())
RECURSIVE CamelJoin(_)
CamelJoin(s) ==
  IF s = <<>> THEN <<>>
  ELSE IF Head(s) = "_" /\ Len(s) >= 2 /\ s[2] # "_"
    THEN <<ToUpperCase(s[2])>> \o CamelJoin(Tail(Tail(s)))
  ELSE <<Head(s)>> \o CamelJoin(Tail(s))

\* underscoredType.charAt(0).toUpperCase() + underscoredType.slice(1)
CapitaliseFirst(s) == IF s = <<>> THEN <<>> ELSE <<ToUpperCase(Head(s))>> \o Tail(s)

\* the user-supplied customTypesTransform functions the model draws from
UserTransform(ctt, customType) ==
  IF ctt = "fnConst" THEN <<"T">> ELSE <<"U", "_">> \o customType

Transforms == {"my_type", "PgMyType", "PgMy_type", "fnConst", "fnRaw"}

transformCustomType(customType, cfg) ==
  LET ctt == cfg.customTypesTransform
      underscoredType == ReplaceNonWordRuns(customType, <<"_">>, FALSE)
      legalisedType == ReplaceNonWordRuns(customType, <<>>, FALSE)
  IN  IF ctt = "my_type" THEN legalisedType
      ELSE IF ctt = "PgMyType" THEN CamelJoin(<<"P", "g", "_">> \o legalisedType)
      ELSE IF ctt = "PgMy_type" THEN <<"P", "g">> \o CapitaliseFirst(underscoredType)
      ELSE UserTransform(ctt, customType)

----------------------------------------------------------------------------
(* Base-type mapping: tsTypeForPgType of ./pgTypes *)

int4 == <<"i", "n", "t", "4">>
jsonb == <<"j", "s", "o", "n", "b">>
timestamptz == <<"t", "i", "m", "e", "s", "t", "a", "m", "p", "t", "z">>
timestamptzArr == <<"_">> \o timestamptz
mood == <<"m", "o", "o", "d">>

ANY == <<"any">>
NEVER == <<"never">>

tsTypeForPgType(pgType, enums) ==
  IF pgType = int4 THEN <<"number">>
  ELSE IF pgType = jsonb THEN <<"db.JSONValue">>
  ELSE IF pgType = timestamptz THEN <<"Date">>
  ELSE IF pgType = timestamptzArr THEN <<"Date[]">>
  ELSE IF pgType \in enums THEN pgType
  ELSE IF pgType # <<>> /\ Head(pgType) = "_" /\ Tail(pgType) \in enums THEN Tail(pgType) \o <<"[]">>
  ELSE ANY

----------------------------------------------------------------------------
(* Column Classifier and role fields: the forEach body of                  *)
(* definitionForTableInSchema                                              *)

NULL == <<"\\null">>       \* SQL NULL / JS null in a domainName
STAR == <<"*">>            \* the wildcard key of columnOptions

\* (config.columnOptions[rel.name] && config.columnOptions[rel.name][column]) ??
\* (config.columnOptions["*"] && config.columnOptions["*"][column])
NoOptions == [insert |-> "undefined", update |-> "undefined"]

\* a lookup that forgets the wildcard entry
ColumnOptionsForNoWildcard(relName, column, cfg) ==
  LET co == cfg.columnOptions
  IN  IF relName \in DOMAIN co /\ column \in DOMAIN co[relName] THEN co[relName][column]
      ELSE NoOptions

ColumnOptionsFor(relName, column, cfg) ==
  LET co == cfg.columnOptions
  IN  IF relName \in DOMAIN co /\ column \in DOMAIN co[relName] THEN co[relName][column]
      ELSE IF STAR \in DOMAIN co /\ column \in DOMAIN co[STAR] THEN co[STAR][column]
      ELSE NoOptions

\* customTypes[prefixedCustomType] = type
RegistryPut(reg, key, type) ==
  [k \in (DOMAIN reg) \cup {key} |-> IF k = key THEN type ELSE reg[k]]

\* a reference that reuses the placeholder when the key is already registered
CustomTypeRefReused(key, type, reg) == IF key \in DOMAIN reg THEN reg[key] ELSE <<"c.">> \o key

\* type = 'c.' + prefixedCustomType
CustomTypeRef(key, type, reg) == <<"c.">> \o key

\* an orDateString that forgets the array form
OrDateStringScalarOnly(type) ==
  IF type = <<"Date">> THEN <<" | db.DateString">> ELSE <<>>

\* orDateString, computed from the mapped type of udtName
OrDateString(type) ==
  IF type = <<"Date">> THEN <<" | db.DateString">>
  ELSE IF type = <<"Date[]">> THEN <<" | db.DateString[]">>
  ELSE <<>>

IsInsertable(row, columnOptions) == ~row.isGenerated /\ columnOptions.insert # "excluded"

IsUpdatable(row, columnOptions) == ~row.isGenerated /\ columnOptions.update # "excluded"

InsertablyOptional(row, columnOptions) ==
  IF row.isNullable \/ row.hasDefault \/ columnOptions.insert = "optional" THEN <<"?">> ELSE <<>>

\* a test that sends only domains to the registry
IsCustomDomainOnly(type, domainName) == domainName # NULL

\* type === 'any' || domainName !== null
IsCustom(type, domainName) == type = ANY \/ domainName # NULL

\* one iteration of rows.forEach: the registry after it and the fields it pushes
ClassifyColumn(relName, row, enums, reg, cfg) ==
  LET type0 == tsTypeForPgType(row.udtName, enums)
      columnOptions == ColumnOptionsFor(relName, row.column, cfg)
      orNull == IF row.isNullable THEN <<" | null">> ELSE <<>>
      orDateString == OrDateString(type0)
      orDefault == IF row.isNullable \/ row.hasDefault THEN <<" | db.DefaultType">> ELSE <<>>
      custom == IsCustom(type0, row.domainName)
      customType == IF row.domainName # NULL THEN row.domainName ELSE row.udtName
      prefixedCustomType == transformCustomType(customType, cfg)
      type == IF custom THEN CustomTypeRef(prefixedCustomType, type0, reg) ELSE type0
      basicWhereableTypes ==
        type \o <<" | db.Parameter<">> \o type \o <<">">> \o orDateString
             \o <<" | db.SQLFragment">> \o <<" | db.ParentColumn">>
      basicInsertableTypes ==
        type \o <<" | db.Parameter<">> \o type \o <<">">> \o orDateString \o orNull \o orDefault
             \o <<" | db.SQLFragment">>
  IN  [ reg |-> IF custom THEN RegistryPut(reg, prefixedCustomType, type0) ELSE reg,
        type |-> type,
        selectables |-> << row.column \o <<": ">> \o type \o orNull \o <<";">> >>,
        whereables |-> << row.column \o <<"?: ">> \o basicWhereableTypes
                          \o <<" | db.SQLFragment<any, ">> \o basicWhereableTypes \o <<">;">> >>,
        insertables |-> IF IsInsertable(row, columnOptions)
                        THEN << row.column \o InsertablyOptional(row, columnOptions) \o <<": ">>
                                \o basicInsertableTypes \o <<";">> >>
                        ELSE <<>>,
        updatables |-> IF IsUpdatable(row, columnOptions)
                       THEN << row.column \o <<"?: ">> \o basicInsertableTypes
                               \o <<" | db.SQLFragment<any, ">> \o basicInsertableTypes \o <<">;">> >>
                       ELSE <<>> ]

----------------------------------------------------------------------------
(* Relation Type Synthesizer: definitionForTableInSchema *)

\* rows.forEach(...): the registry after all rows and the four field lists
RECURSIVE ClassifyRows(_, _, _, _, _, _)
ClassifyRows(rows, relName, enums, reg, cfg, acc) ==
  IF rows = <<>> THEN [acc EXCEPT !.reg = reg]
  ELSE LET res == ClassifyColumn(relName, Head(rows), enums, reg, cfg)
       IN  ClassifyRows(Tail(rows), relName, enums, res.reg, cfg,
             [ reg |-> res.reg,
               selectables |-> acc.selectables \o res.selectables,
               whereables |-> acc.whereables \o res.whereables,
               insertables |-> acc.insertables \o res.insertables,
               updatables |-> acc.updatables \o res.updatables ])

NoFields == [reg |-> <<>>, selectables |-> <<>>, whereables |-> <<>>,
             insertables |-> <<>>, updatables |-> <<>>]

\* a union that needs more than one index
UniqueIndexTypeOffByOne(uniqueIndexes) ==
  IF Len(uniqueIndexes) > 1
  THEN Join([i \in 1..Len(uniqueIndexes) |-> <<"'">> \o uniqueIndexes[i] \o <<"'">>], <<" | ">>)
  ELSE NEVER

\* uniqueIndexes.length > 0 ? uniqueIndexes.map(ui => "'" + ui.indexname + "'").join(' | ') : 'never'
UniqueIndexType(uniqueIndexes) ==
  IF Len(uniqueIndexes) > 0
  THEN Join([i \in 1..Len(uniqueIndexes) |-> <<"'">> \o uniqueIndexes[i] \o <<"'">>], <<" | ">>)
  ELSE NEVER

\* the tableDef template: the parts of the block that vary
TableDef(rel, fields, uniqueIndexes) ==
  [ name |-> rel.name,
    selectables |-> fields.selectables,
    whereables |-> fields.whereables,
    insertables |-> fields.insertables,
    updatables |-> fields.updatables,
    uniqueIndex |-> UniqueIndexType(uniqueIndexes) ]

PendingDef == [name |-> <<>>, selectables |-> <<>>, whereables |-> <<>>,
               insertables |-> <<>>, updatables |-> <<>>, uniqueIndex |-> <<>>]

----------------------------------------------------------------------------
(* Cross-Relation Aggregator: crossTableTypesForTables *)

\* a union that is 'never' when there are no relations
mappedUnionNever(arr, thing) ==
  IF Len(arr) = 0 THEN NEVER
  ELSE Join([i \in 1..Len(arr) |-> arr[i].name \o <<".", thing>>], <<" | ">>)

\* arr.length === 0 ? 'any' : arr.map(rel => fn(rel.name)).join(' | ')
mappedUnion(arr, thing) ==
  IF Len(arr) = 0 THEN ANY
  ELSE Join([i \in 1..Len(arr) |-> arr[i].name \o <<".", thing>>], <<" | ">>)

\* relations.filter(rel => rel.type === kind).map(rel => `${rel.name}.Table`).join(', ')
RECURSIVE TablesOfKind(_, _)
TablesOfKind(relations, kind) ==
  IF relations = <<>> THEN <<>>
  ELSE (IF Head(relations).type = kind THEN <<Head(relations).name \o <<".", "Table">>>> ELSE <<>>)
       \o TablesOfKind(Tail(relations), kind)

Unions == {"Table", "Selectable", "Whereable", "Insertable", "Updatable", "UniqueIndex", "Column"}
Thingables == {"Selectable", "Whereable", "Insertable", "Updatable", "UniqueIndex", "Column", "SQL"}

\* relations.length === 0 ? 'any' : `{${relations.map(...).join('')}\n}[T]`
ForTable(relations, thingable) ==
  IF Len(relations) = 0 THEN ANY
  ELSE <<"{">>
       \o Concat([i \in 1..Len(relations) |->
              <<"\n  ">> \o relations[i].name \o <<": ">> \o relations[i].name
                        \o <<".", thingable, ";">>])
       \o <<"\n}[T]">>

crossTableTypesForTables(relations) ==
  [ noTablesComment |-> Len(relations) = 0,
    unions |-> [u \in Unions |-> mappedUnion(relations, u)],
    AllTables |-> <<"[">> \o Join(TablesOfKind(relations, "table"), <<", ">>) \o <<"]">>,
    AllMaterializedViews |-> <<"[">> \o Join(TablesOfKind(relations, "mview"), <<", ">>) \o <<"]">>,
    forTable |-> [t \in Thingables |-> ForTable(relations, t)] ]

----------------------------------------------------------------------------
(* Catalog Oracle: the three catalog queries, answered from the snapshot *)

SetToSeq(S) ==
  LET RECURSIVE Enum(_)
      Enum(T) == IF T = {} THEN <<>> ELSE LET e == CHOOSE e \in T : TRUE IN <<e>> \o Enum(T \ {e})
  IN  Enum(S)

\* ORDER BY "lname", "name"
ListingKey(entry) == CodeUnits(Lower(entry.name)) \o <<0>> \o CodeUnits(entry.name)

relationsInSchema(schemaName, cat) ==
  LET found == SetToSeq({e \in cat.relations : e.schema = schemaName})
      rows == SortByKey(found, [i \in 1..Len(found) |-> ListingKey(found[i])])
  IN  [i \in 1..Len(rows) |-> [name |-> rows[i].name, type |-> rows[i].type]]

\* the rows of the relation named rel.name in the schema.  For a materialized view the
\* query selects the constants 't' and 'f' for isGenerated and hasDefault (both non-empty
\* strings, hence truthy) and null for domainName.
columnsForRelation(rel, schemaName, cat) ==
  LET entry == CHOOSE e \in cat.relations : e.schema = schemaName /\ e.name = rel.name
  IN  IF rel.type = "table" THEN entry.columns
      ELSE [i \in 1..Len(entry.columns) |->
              [entry.columns[i] EXCEPT !.isGenerated = TRUE, !.hasDefault = TRUE,
                                       !.domainName = NULL]]

\* SELECT i."indexname" ... WHERE i."tablename" = $1: the schema is not part of the query
UniqueIndexRows(relName, cat) ==
  Concat([i \in 1..Len(cat.order) |->
            IF cat.order[i] \in cat.relations /\ cat.order[i].name = relName
            THEN cat.order[i].indexes ELSE <<>>])

\* enumDataForSchema of ./enums: the enum types of the schema
enumDataForSchema(schemaName, cat) == cat.enums[schemaName]

\* enumTypesForEnumData of ./enums
enumTypesForEnumData(enums) == enums

----------------------------------------------------------------------------
(* tsForConfig: the pure parts *)

\* rules.exclude === '*' ? [] : listing.filter(include).filter(exclude)
IncludedBy(rel, rules) == rules.include.star \/ rel.name \in Range(rules.include.names)

\* an exclusion that an explicit inclusion overrides
NotExcludedUnlessIncluded(rel, rules) ==
  rel.name \notin Range(rules.exclude.names) \/ rel.name \in Range(rules.include.names)

NotExcludedBy(rel, rules) == rel.name \notin Range(rules.exclude.names)

tablesFor(rules, listing) ==
  IF rules.exclude.star THEN <<>>
  ELSE Filter(Filter(listing, {rel \in Range(listing) : IncludedBy(rel, rules)}),
              {rel \in Range(listing) : NotExcludedBy(rel, rules)})

\* the default comparison of tableDefs.sort(): the blocks start
\* "\nexport namespace ${rel.name} {", so they compare as their names followed by a space
TableDefKey(def) == CodeUnits(def.name \o <<" ">>)

\* the default comparison of schemaDefs.sort(): "\n/* === schema: ${schema} === */..."
SchemaDefKey(schemaDef) == CodeUnits(schemaDef.schema \o <<" ">>)

\* a.name.localeCompare(b.name): letters compare without case first, then lower case
\* before upper case; punctuation before digits before letters
CollationWeight(c) ==
  CASE c = "_" -> 1 [] c = "0" -> 10 [] c = "1" -> 11 [] c = "2" -> 12 [] c = "3" -> 13
    [] c = "4" -> 14 [] c \in {"a", "A"} -> 20 [] c \in {"b", "B"} -> 21
    [] c \in {"d", "D"} -> 22 [] c \in {"p", "P"} -> 23 [] c \in {"t", "T"} -> 24
    [] c \in {"u", "U"} -> 25 [] c \in {"x", "X"} -> 26

LocaleKey(rel) ==
  [i \in 1..Len(rel.name) |-> CollationWeight(rel.name[i])] \o <<0>>
  \o [i \in 1..Len(rel.name) |-> IF ToLowerCase(rel.name[i]) = rel.name[i] THEN 0 ELSE 1]

\* the { schemaDef, tables } a schema's callback returns
SchemaResult(schemaName, enums, tbls, defs) ==
  [ schemaDef |-> [ schema |-> schemaName,
                    enums |-> enumTypesForEnumData(enums),
                    tableDefs |-> SortByKey(defs, [j \in 1..Len(defs) |-> TableDefKey(defs[j])]) ],
    tables |-> tbls ]

\* Object.keys(customTypes).length > 0
HasCustomTypes(reg) == DOMAIN reg # {}

\* sourceFilesForCustomTypes
sourceFilesForCustomTypes(reg) ==
  [name \in DOMAIN reg |->
     (IF reg[name] = <<"db.JSONValue">> THEN <<"import type * as db from 'zapatos/db';\n">>
      ELSE <<>>)
     \o <<"export type ">> \o name \o <<" = ">> \o reg[name] \o <<";">>]

\* lines 281-293: ts (the parts that vary) and customTypeSourceFiles
Output(data, reg) ==
  LET schemaDefs == SortByKey([i \in 1..Len(data) |-> data[i].schemaDef],
                              [i \in 1..Len(data) |-> SchemaDefKey(data[i].schemaDef)])
      schemaTables == [i \in 1..Len(data) |-> data[i].tables]
      concatenated == Concat(schemaTables)
      allTables == SortByKey(concatenated,
                             [i \in 1..Len(concatenated) |-> LocaleKey(concatenated[i])])
  IN  [ ts |-> [ customImport |-> HasCustomTypes(reg),
                 schemaDefs |-> schemaDefs,
                 crossTable |-> crossTableTypesForTables(allTables) ],
        customTypeSourceFiles |-> sourceFilesForCustomTypes(reg) ]

----------------------------------------------------------------------------
(* Inputs of the column classifier *)

id == <<"i", "d">>
x == <<"x">>
relA == <<"a">>
relB == <<"B">>
geoPt == <<"g", "e", "o", ".", "p", "t">>     \* a type the mapping does not know
domD == <<"d">>
domDX == <<"d", " ", "x">>

UdtNames == {int4, timestamptz, timestamptzArr, mood, geoPt}
DomainNames == {NULL, domDX}
Enums == {mood}

\* every combination of the flags on plain columns, every kind of type on a few flag settings
ColumnRows ==
  [column : {id, x}, isGenerated : BOOLEAN, isNullable : BOOLEAN, hasDefault : BOOLEAN,
   udtName : {int4, timestamptz}, domainName : {NULL}]
  \cup
  [column : {x}, isGenerated : {FALSE}, isNullable : {FALSE}, hasDefault : {FALSE},
   udtName : UdtNames, domainName : DomainNames]
  \cup
  [column : {x}, isGenerated : {TRUE}, isNullable : {TRUE}, hasDefault : {FALSE},
   udtName : UdtNames, domainName : DomainNames]

\* columnOptions: relation name (or "*") -> column -> { insert?, update? }
NoColumnOptions == <<>>

SomeColumnOptions ==
  (relA :> (id :> [insert |-> "excluded", update |-> "undefined"]
            @@ x :> [insert |-> "undefined", update |-> "undefined"]))
  @@ (STAR :> (id :> [insert |-> "optional", update |-> "excluded"]
               @@ x :> [insert |-> "optional", update |-> "excluded"]))

NoSchemas == <<>>
NoCatalog == [relations |-> {}, order |-> <<>>, enums |-> <<>>]

----------------------------------------------------------------------------
(* Catalog snapshots and configurations of a run *)

pub == <<"p", "u", "b">>
aux == <<"a", "u", "x">>
relAb == <<"a", "b">>
relLowB == <<"b">>

Col(column, udtName, domainName, isGenerated, isNullable, hasDefault) ==
  [column |-> column, isGenerated |-> isGenerated, isNullable |-> isNullable,
   hasDefault |-> hasDefault, udtName |-> udtName, domainName |-> domainName]

\* the relations a schema may hold: name, kind, column rows, unique indexes
RelationMenu ==
  { [name |-> relA, type |-> "table",
     columns |-> << Col(id, int4, NULL, TRUE, FALSE, FALSE),
                    Col(x, jsonb, domD, FALSE, TRUE, FALSE) >>,
     indexes |-> << <<"a_pkey">> >>],
    [name |-> relB, type |-> "table",
     columns |-> << Col(x, timestamptz, domD, FALSE, FALSE, FALSE) >>,
     indexes |-> << <<"B_pkey">>, <<"B_x_key">> >>],
    [name |-> relAb, type |-> "mview",
     columns |-> << Col(x, mood, NULL, FALSE, TRUE, FALSE) >>,
     indexes |-> << <<"ab_idx">> >>],
    [name |-> relLowB, type |-> "table",
     columns |-> << Col(id, int4, NULL, FALSE, FALSE, TRUE) >>,
     indexes |-> <<>>] }

SchemaNames == <<pub, aux>>

Placements ==
  {[schema |-> SchemaNames[i], name |-> r.name, type |-> r.type, columns |-> r.columns,
    indexes |-> r.indexes] : i \in 1..Len(SchemaNames), r \in RelationMenu}

\* the enum type mood exists in pub only
EnumsOfSchemas == (pub :> {mood}) @@ (aux :> {})

Catalogs ==
  {[relations |-> rels, order |-> SetToSeq(Placements), enums |-> EnumsOfSchemas] :
     rels \in {c \in SUBSET Placements : Cardinality(c) <= MaxRels}}

Everything == [star |-> TRUE, names |-> <<>>]
Names(list) == [star |-> FALSE, names |-> list]

RulesMenu ==
  { [include |-> Everything, exclude |-> Names(<<>>)],
    [include |-> Everything, exclude |-> Everything],
    [include |-> Names(<<relA, relB>>), exclude |-> Names(<<relB>>)],
    [include |-> Names(<<relAb, relLowB>>), exclude |-> Names(<<>>)] }

RunConfigs ==
  {[schemas |-> << [name |-> pub, rules |-> r1], [name |-> aux, rules |-> r2] >>,
    columnOptions |-> SomeColumnOptions,
    customTypesTransform |-> "PgMy_type"] :
     r1 \in RulesMenu, r2 \in {r \in RulesMenu : ~r.exclude.star}}

----------------------------------------------------------------------------
(* tsForConfig: the run *)

Schemas == 1..Len(config.schemas)

Init ==
  /\ config \in RunConfigs
  /\ catalog \in Catalogs
  /\ main = "init" /\ pool = "none" /\ endCalls = 0 /\ failures = 0
  /\ spc = <<>> /\ tables = <<>> /\ rpc = <<>>
  /\ tableDefs = <<>> /\ schemaData = <<>> /\ out = <<>>
  /\ customTypes = <<>>
  /\ colIn = <<>> /\ colOut = <<>>
  /\ aggIn = <<>> /\ aggOut = <<>>

\* Promise.all rejects with the first rejection; tsForConfig then throws out of its await
Rejected(m) == IF m = "awaiting" THEN "rejected" ELSE m

\* lines 257-266, up to the first await of every schema callback
Start ==
  /\ main = "init"
  /\ pool' = "open"
  /\ main' = "awaiting"
  /\ spc' = [i \in Schemas |-> IF config.schemas[i].rules.exclude.star THEN "enums" ELSE "listing"]
  /\ tables' = [i \in Schemas |-> <<>>]
  /\ rpc' = [i \in Schemas |-> <<>>]
  /\ tableDefs' = [i \in Schemas |-> <<>>]
  /\ schemaData' = [i \in Schemas |-> <<>>]
  /\ UNCHANGED <<config, catalog, endCalls, customTypes, out, failures, colVars, aggVars>>

\* relationsInSchema resolves: filter the listing, then call enumDataForSchema
ListingDone(i) ==
  /\ spc[i] = "listing"
  /\ tables' = [tables EXCEPT ![i] =
                  tablesFor(config.schemas[i].rules,
                            relationsInSchema(config.schemas[i].name, catalog))]
  /\ spc' = [spc EXCEPT ![i] = "enums"]
  /\ UNCHANGED <<config, catalog, main, pool, endCalls, rpc, customTypes, tableDefs,
                 schemaData, out, failures, colVars, aggVars>>

\* enumDataForSchema resolves: start definitionForTableInSchema for every table, each up
\* to its columnsForRelation query; with no tables the callback returns at once
EnumsDone(i) ==
  /\ spc[i] = "enums"
  /\ IF tables[i] = <<>>
     THEN /\ spc' = [spc EXCEPT ![i] = "done"]
          /\ schemaData' = [schemaData EXCEPT ![i] =
                <<SchemaResult(config.schemas[i].name,
                               enumDataForSchema(config.schemas[i].name, catalog),
                               tables[i], <<>>)>>]
          /\ UNCHANGED <<rpc, tableDefs>>
     ELSE /\ spc' = [spc EXCEPT ![i] = "tables"]
          /\ rpc' = [rpc EXCEPT ![i] = [j \in 1..Len(tables[i]) |-> "columns"]]
          /\ tableDefs' = [tableDefs EXCEPT ![i] = [j \in 1..Len(tables[i]) |-> PendingDef]]
          /\ UNCHANGED schemaData
  /\ UNCHANGED <<config, catalog, main, pool, endCalls, tables, customTypes, out, failures,
                 colVars, aggVars>>

\* the relation listing or the enum listing of a schema fails
SchemaQueryFails(i) ==
  /\ spc[i] \in {"listing", "enums"}
  /\ failures < MaxFailures
  /\ failures' = failures + 1
  /\ spc' = [spc EXCEPT ![i] = "failed"]
  /\ main' = Rejected(main)
  /\ UNCHANGED <<config, catalog, pool, endCalls, tables, rpc, customTypes, tableDefs,
                 schemaData, out, colVars, aggVars>>

\* columnsForRelation resolves: classify every row, then issue the unique-index query
\* (tsForConfig calls the function under the name definitionForRelationInSchema)
ColumnsDone(i, j) ==
  /\ rpc[i][j] = "columns"
  /\ LET rel == tables[i][j]
         schemaName == config.schemas[i].name
         fields == ClassifyRows(columnsForRelation(rel, schemaName, catalog), rel.name,
                                enumDataForSchema(schemaName, catalog), customTypes, config,
                                NoFields)
     IN  /\ customTypes' = fields.reg
         /\ tableDefs' = [tableDefs EXCEPT ![i][j] = TableDef(rel, fields, <<>>)]
  /\ rpc' = [rpc EXCEPT ![i][j] = "indexes"]
  /\ UNCHANGED <<config, catalog, main, pool, endCalls, spc, tables, schemaData, out,
                 failures, colVars, aggVars>>

\* the unique-index query resolves: the block is returned; when it was the last block of
\* its schema, the schema callback sorts the blocks and returns
IndexesDone(i, j) ==
  /\ rpc[i][j] = "indexes"
  /\ LET rel == tables[i][j]
         def == TableDef(rel, tableDefs[i][j], UniqueIndexRows(rel.name, catalog))
         defs == [tableDefs[i] EXCEPT ![j] = def]
         allDone == \A k \in 1..Len(rpc[i]) : k = j \/ rpc[i][k] = "done"
     IN  /\ tableDefs' = [tableDefs EXCEPT ![i] = defs]
         /\ rpc' = [rpc EXCEPT ![i][j] = "done"]
         /\ IF allDone /\ spc[i] = "tables"
            THEN /\ spc' = [spc EXCEPT ![i] = "done"]
                 /\ schemaData' = [schemaData EXCEPT ![i] =
                       <<SchemaResult(config.schemas[i].name,
                                      enumDataForSchema(config.schemas[i].name, catalog),
                                      tables[i], defs)>>]
            ELSE UNCHANGED <<spc, schemaData>>
  /\ UNCHANGED <<config, catalog, main, pool, endCalls, tables, customTypes, out, failures,
                 colVars, aggVars>>

\* the column query or the unique-index query of a relation fails
RelationQueryFails(i, j) ==
  /\ rpc[i][j] \in {"columns", "indexes"}
  /\ failures < MaxFailures
  /\ failures' = failures + 1
  /\ rpc' = [rpc EXCEPT ![i][j] = "failed"]
  /\ spc' = [spc EXCEPT ![i] = IF @ = "tables" THEN "failed" ELSE @]
  /\ main' = Rejected(main)
  /\ UNCHANGED <<config, catalog, pool, endCalls, tables, customTypes, tableDefs,
                 schemaData, out, colVars, aggVars>>

\* every schema callback has returned: lines 281-295, up to the await of pool.end()
Finish ==
  /\ main = "awaiting"
  /\ \A i \in Schemas : spc[i] = "done"
  /\ out' = <<Output([i \in Schemas |-> schemaData[i][1]], customTypes)>>
  /\ endCalls' = endCalls + 1
  /\ pool' = "ending"
  /\ main' = "ending"
  /\ UNCHANGED <<config, catalog, spc, tables, rpc, customTypes, tableDefs, schemaData,
                 failures, colVars, aggVars>>

\* pool.end() resolves: line 296
PoolEnded ==
  /\ main = "ending"
  /\ pool' = "ended"
  /\ main' = "done"
  /\ UNCHANGED <<config, catalog, endCalls, spc, tables, rpc, customTypes, tableDefs,
                 schemaData, out, failures, colVars, aggVars>>

Next ==
  \/ Start
  \/ \E i \in DOMAIN spc : ListingDone(i)
  \/ \E i \in DOMAIN spc : EnumsDone(i)
  \/ \E i \in DOMAIN spc : SchemaQueryFails(i)
  \/ \E i \in DOMAIN rpc : \E j \in DOMAIN rpc[i] : ColumnsDone(i, j)
  \/ \E i \in DOMAIN rpc : \E j \in DOMAIN rpc[i] : IndexesDone(i, j)
  \/ \E i \in DOMAIN rpc : \E j \in DOMAIN rpc[i] : RelationQueryFails(i, j)
  \/ Finish
  \/ PoolEnded

Spec == Init /\ [][Next]_vars

----------------------------------------------------------------------------
(* crossTableTypesForTables applied to one relation list at a time *)

AggRelations ==
  { [name |-> relA, type |-> "table"],
    [name |-> relB, type |-> "mview"],
    [name |-> relAb, type |-> "table"] }

RECURSIVE SeqsUpTo(_, _)
SeqsUpTo(S, n) ==
  IF n = 0 THEN {<<>>}
  ELSE LET shorter == SeqsUpTo(S, n - 1)
       IN  shorter \cup {Append(q, e) : q \in shorter, e \in S}

InitAgg ==
  /\ config = [schemas |-> NoSchemas, columnOptions |-> NoColumnOptions,
               customTypesTransform |-> "PgMy_type"]
  /\ catalog = NoCatalog
  /\ main = "init" /\ pool = "none" /\ endCalls = 0 /\ failures = 0
  /\ spc = <<>> /\ tables = <<>> /\ rpc = <<>>
  /\ tableDefs = <<>> /\ schemaData = <<>> /\ out = <<>>
  /\ customTypes = <<>>
  /\ colIn = <<>> /\ colOut = <<>>
  /\ aggIn = <<>> /\ aggOut = <<>>

Aggregate(relations) ==
  /\ aggIn' = <<relations>>
  /\ aggOut' = <<crossTableTypesForTables(relations)>>
  /\ UNCHANGED <<runVars, customTypes, colVars>>

NextAgg == \E relations \in SeqsUpTo(AggRelations, MaxAggLen) : Aggregate(relations)

SpecAgg == InitAgg /\ [][NextAgg]_vars

----------------------------------------------------------------------------
(* The forEach body applied to one column row at a time *)

ColConfigs ==
  [schemas : {NoSchemas}, columnOptions : {SomeColumnOptions}, customTypesTransform : Transforms]
  \cup
  [schemas : {NoSchemas}, columnOptions : {NoColumnOptions}, customTypesTransform : {"PgMy_type"}]

InitCol ==
  /\ config \in ColConfigs
  /\ catalog = NoCatalog
  /\ main = "init" /\ pool = "none" /\ endCalls = 0 /\ failures = 0
  /\ spc = <<>> /\ tables = <<>> /\ rpc = <<>>
  /\ tableDefs = <<>> /\ schemaData = <<>> /\ out = <<>>
  /\ customTypes = <<>>
  /\ colIn = <<>> /\ colOut = <<>>
  /\ aggIn = <<>> /\ aggOut = <<>>

ForEachRow(relName, row) ==
  LET res == ClassifyColumn(relName, row, Enums, customTypes, config)
  IN  /\ colIn' = <<[relName |-> relName, row |-> row, reg |-> customTypes]>>
      /\ colOut' = <<res>>
      /\ customTypes' = res.reg
      /\ UNCHANGED <<runVars, aggVars>>

NextCol == \E relName \in {relA, relB}, row \in ColumnRows : ForEachRow(relName, row)

SpecCol == InitCol /\ [][NextCol]_vars

----------------------------------------------------------------------------
(* Reading the fields back from the text that was pushed *)

\* the declaration of `column` in a list of field declarations, if any
FieldsOf(decls, column) ==
  {i \in 1..Len(decls) :
     /\ Len(decls[i]) > Len(column)
     /\ SubSeq(decls[i], 1, Len(column)) = column
     /\ decls[i][Len(column) + 1] \in {": ", "?: ", "?"}}

HasField(decls, column) == FieldsOf(decls, column) # {}

IsOptionalField(decls, column) ==
  \E i \in FieldsOf(decls, column) : decls[i][Len(column) + 1] \in {"?: ", "?"}

HasAlternative(decls, column, alt) ==
  \E i \in FieldsOf(decls, column) : alt \in Range(decls[i])

DateStringFor(type) ==
  IF type = <<"Date">> THEN {" | db.DateString"}
  ELSE IF type = <<"Date[]">> THEN {" | db.DateString[]"}
  ELSE {}

\* the date-string alternatives found in the filter, insert and update fields of the column
DateStringsIn(res, column) ==
  {alt \in {" | db.DateString", " | db.DateString[]"} :
     \/ HasAlternative(res.whereables, column, alt)
     \/ HasAlternative(res.insertables, column, alt)
     \/ HasAlternative(res.updatables, column, alt)}

\* every filter, insert and update field of the column carries exactly the alternatives alts
DateStringsAre(res, column, alts) ==
  \A decls \in {res.whereables, res.insertables, res.updatables} :
    \A i \in FieldsOf(decls, column) :
      \A alt \in {" | db.DateString", " | db.DateString[]"} :
        (alt \in Range(decls[i])) <=> (alt \in alts)

----------------------------------------------------------------------------
(* Claims about the column classifier, checked under SpecCol *)

\* C5: classifying one column leaves the registry unchanged and uses the mapped type
\* directly when the domain is null and the base type is known; otherwise it writes
\* exactly one entry, keyed by the transform of the domain name (or of the base type
\* name when the domain is null), whose value is the mapped type of the base type
\* ('any' when unknown), and the column's type is a reference to that key.
C5_ClassifyRegistryEffect ==
  colIn # <<>> =>
    LET row == colIn[1].row
        before == colIn[1].reg
        res == colOut[1]
        mapped == tsTypeForPgType(row.udtName, Enums)
        key == transformCustomType(
                 IF row.domainName # NULL THEN row.domainName ELSE row.udtName, config)
    IN  IF row.domainName = NULL /\ mapped # ANY
        THEN res.type = mapped /\ customTypes = before
        ELSE /\ DOMAIN customTypes = (DOMAIN before) \cup {key}
             /\ \A k \in (DOMAIN before) \ {key} : customTypes[k] = before[k]
             /\ customTypes[key] = (IF mapped # ANY THEN mapped ELSE ANY)
             /\ res.type = <<"c.">> \o key

\* a column of unknown base type and null domain was classified into a registry that
\* already held another entry
C5_Witness ==
  /\ colIn # <<>>
  /\ colIn[1].row.domainName = NULL
  /\ tsTypeForPgType(colIn[1].row.udtName, Enums) = ANY
  /\ DOMAIN colIn[1].reg # {}
  /\ Cardinality(DOMAIN customTypes) = Cardinality(DOMAIN colIn[1].reg) + 1

\* C6: a column always has a read field and a filter field; it has an insert (update)
\* field iff it is not generated and the override that applies to it (the relation's
\* entry for the column, else the wildcard's) does not exclude insert (update); its
\* insert field is optional iff it is nullable, has a default, or the override says so.
C6_RoleInclusion ==
  colIn # <<>> =>
    LET row == colIn[1].row
        rel == colIn[1].relName
        res == colOut[1]
        co == config.columnOptions
        override ==
          IF rel \in DOMAIN co /\ row.column \in DOMAIN co[rel] THEN co[rel][row.column]
          ELSE IF STAR \in DOMAIN co /\ row.column \in DOMAIN co[STAR] THEN co[STAR][row.column]
          ELSE [insert |-> "undefined", update |-> "undefined"]
    IN  /\ HasField(res.selectables, row.column)
        /\ HasField(res.whereables, row.column)
        /\ HasField(res.insertables, row.column)
             <=> (~row.isGenerated /\ override.insert # "excluded")
        /\ HasField(res.updatables, row.column)
             <=> (~row.isGenerated /\ override.update # "excluded")
        /\ HasField(res.insertables, row.column) =>
             (IsOptionalField(res.insertables, row.column)
                <=> (row.isNullable \/ row.hasDefault \/ override.insert = "optional"))

\* a column that is neither generated, nullable nor defaulted, of a relation without an
\* entry of its own, got its insert field made optional and its update field removed by
\* the wildcard entry
C6_Witness ==
  /\ colIn # <<>>
  /\ config.columnOptions = SomeColumnOptions
  /\ colIn[1].relName = relB
  /\ colIn[1].row.column = id
  /\ ~colIn[1].row.isGenerated /\ ~colIn[1].row.isNullable /\ ~colIn[1].row.hasDefault
  /\ IsOptionalField(colOut[1].insertables, id)
  /\ ~HasField(colOut[1].updatables, id)

\* C10 (as stated): the filter, insert and update fields of a column carry the date-string
\* alternative iff the type the column ends up with after classification is Date (Date[]
\* for the array form); a column resolved to a custom-type reference carries none.
C10_DateStringIffResolvedTemporal ==
  colIn # <<>> =>
    DateStringsAre(colOut[1], colIn[1].row.column, DateStringFor(colOut[1].type))

\* C10 (amended): the filter, insert and update fields of a column carry the date-string
\* alternative iff the mapped type of the column's base type, before custom-type
\* classification, is Date (Date[] for the array form); so a column of a domain over a
\* temporal type is resolved to a custom-type reference and still carries it.
C10_DateStringIffMappedTemporal ==
  colIn # <<>> =>
    DateStringsAre(colOut[1], colIn[1].row.column,
                   DateStringFor(tsTypeForPgType(colIn[1].row.udtName, Enums)))

\* an insertable column of a domain over an array of timestamps was classified: its type
\* is a custom-type reference and its fields carry the array date-string alternative
C10_Witness ==
  /\ colIn # <<>>
  /\ colIn[1].row.domainName # NULL
  /\ colIn[1].row.udtName = timestamptzArr
  /\ Head(colOut[1].type) = "c."
  /\ HasField(colOut[1].insertables, colIn[1].row.column)
  /\ DateStringsIn(colOut[1], colIn[1].row.column) = {" | db.DateString[]"}

----------------------------------------------------------------------------
(* Reading unions back, and the run taken one query at a time *)

\* text.split(sep), sep being one token
RECURSIVE SplitOn(_, _)
SplitOn(text, sep) ==
  IF text = <<>> THEN << <<>> >>
  ELSE LET rest == SplitOn(Tail(text), sep)
       IN  IF Head(text) = sep THEN << <<>> >> \o rest
           ELSE << <<Head(text)>> \o Head(rest) >> \o Tail(rest)

Quoted(names) == [i \in 1..Len(names) |-> <<"'">> \o names[i] \o <<"'">>]

\* the blocks of the tables of one schema, each relation finished before the next starts
RECURSIVE SequentialDefs(_, _, _, _)
SequentialDefs(rels, schemaName, reg, defs) ==
  IF rels = <<>> THEN [reg |-> reg, defs |-> defs]
  ELSE LET rel == Head(rels)
           fields == ClassifyRows(columnsForRelation(rel, schemaName, catalog), rel.name,
                                  enumDataForSchema(schemaName, catalog), reg, config, NoFields)
           def == TableDef(rel, fields, UniqueIndexRows(rel.name, catalog))
       IN  SequentialDefs(Tail(rels), schemaName, fields.reg, Append(defs, def))

\* the schemas one after the other, in the order of Object.keys(schemas)
RECURSIVE SequentialSchemas(_, _, _)
SequentialSchemas(schemas, reg, data) ==
  IF schemas = <<>> THEN [reg |-> reg, data |-> data]
  ELSE LET schema == Head(schemas)
           tbls == tablesFor(schema.rules, relationsInSchema(schema.name, catalog))
           run == SequentialDefs(tbls, schema.name, reg, <<>>)
       IN  SequentialSchemas(Tail(schemas), run.reg,
             Append(data, SchemaResult(schema.name, enumDataForSchema(schema.name, catalog),
                                       tbls, run.defs)))

SequentialOutput ==
  LET run == SequentialSchemas(config.schemas, <<>>, <<>>)
  IN  Output(run.data, run.reg)

Outstanding ==
  Cardinality({i \in DOMAIN spc : spc[i] \in {"listing", "enums"}})
  + Cardinality({ij \in {<<i, j>> : i \in DOMAIN rpc, j \in 1..MaxRels + 1} :
                   /\ ij[2] \in DOMAIN rpc[ij[1]]
                   /\ rpc[ij[1]][ij[2]] \in {"columns", "indexes"}})

----------------------------------------------------------------------------
(* Claims about the run, checked under Spec *)

\* C1: the pool is created before any catalog query and closed exactly once after the
\* last one, on success and on failure: no query is outstanding unless the pool is open,
\* and a run that has ended, returned or thrown, has called pool.end() once and left the
\* pool closed.
C1_PoolClosedOnceOnEveryPath ==
  /\ Outstanding > 0 => pool = "open"
  /\ main \in {"done", "rejected"} => pool = "ended" /\ endCalls = 1

\* C2: the type-declaration text of a run that returns is the text of the run taken one
\* query at a time in configuration order, whatever order the queries completed in.
C2_TextIndependentOfCompletionOrder ==
  out # <<>> => out[1].ts = SequentialOutput.ts

\* a run returned whose two schemas both had relations to introspect, two of them in
\* one schema, and which registered custom types
C2_Witness ==
  /\ main = "done"
  /\ out[1].ts.customImport
  /\ Len(tables[1]) + Len(tables[2]) >= 3
  /\ tables[1] # <<>> /\ tables[2] # <<>>

\* C3: no registration replaces an entry that exists under the same key with a different
\* placeholder type.
C3_NoEntryReplaced ==
  [][\A k \in DOMAIN customTypes : customTypes'[k] = customTypes[k]]_vars

\* C4: within each schema's section the relation blocks are in ascending
\* case-insensitive order of relation name.
C4_BlocksInCaseInsensitiveOrder ==
  \A i \in DOMAIN schemaData :
    schemaData[i] # <<>> =>
      LET defs == schemaData[i][1].schemaDef.tableDefs
      IN  \A j, k \in 1..Len(defs) :
            j < k => ~LexLess(CodeUnits(Lower(defs[k].name)), CodeUnits(Lower(defs[j].name)))

\* C7: a listed relation is processed, has a block in its schema's section and is a member
\* of the aggregate unions iff the exclude rule is not "*", its name is not in the exclude
\* list, and the include rule is "*" or names it.
C7_IncludedIffNotExcluded ==
  \A i \in DOMAIN spc :
    LET rules == config.schemas[i].rules
        listing == relationsInSchema(config.schemas[i].name, catalog)
        Processed(rel) ==
          /\ ~rules.exclude.star
          /\ \A n \in 1..Len(rules.exclude.names) : rules.exclude.names[n] # rel.name
          /\ \/ rules.include.star
             \/ \E n \in 1..Len(rules.include.names) : rules.include.names[n] = rel.name
    IN  /\ spc[i] \in {"enums", "tables", "done"} =>
             \A rel \in Range(listing) : (rel \in Range(tables[i])) <=> Processed(rel)
        /\ schemaData[i] # <<>> =>
             \A rel \in Range(listing) :
               (\E d \in Range(schemaData[i][1].schemaDef.tableDefs) : d.name = rel.name)
                 <=> Processed(rel)
        /\ out # <<>> =>
             \A rel \in Range(listing) :
               Processed(rel) =>
                 rel.name \o <<".", "Table">>
                   \in Range(SplitOn(out[1].ts.crossTable.unions["Table"], " | "))

\* a schema listing both a and B under the rules include [a, B], exclude [B] returned
\* its blocks: a was processed and B was not
C7_Witness ==
  \E i \in DOMAIN schemaData :
    /\ schemaData[i] # <<>>
    /\ config.schemas[i].rules.include.names = <<relA, relB>>
    /\ config.schemas[i].rules.exclude.names = <<relB>>
    /\ {rel.name : rel \in Range(relationsInSchema(config.schemas[i].name, catalog))}
         = {relA, relB}
    /\ tables[i] = <<[name |-> relA, type |-> "table"]>>

\* C9 (as stated): the unique-index union of a materialized view is 'never' whatever the
\* unique-index query returns for its name; that of a table is 'never' when the query
\* returns no rows and else the union of the returned names in the order returned.
C9_MaterializedViewHasNoUniqueIndex ==
  \A i \in DOMAIN rpc : \A j \in DOMAIN rpc[i] :
    rpc[i][j] = "done" =>
      LET rows == UniqueIndexRows(tables[i][j].name, catalog)
      IN  IF tables[i][j].type = "mview" \/ rows = <<>>
          THEN tableDefs[i][j].uniqueIndex = NEVER
          ELSE SplitOn(tableDefs[i][j].uniqueIndex, " | ") = Quoted(rows)

\* C9 (amended): for a relation of either kind, the unique-index union is 'never' when
\* the unique-index query returns no rows for its name and else the union of the returned
\* index names in the order returned; a materialized view is not treated differently.
C9_UniqueIndexFollowsQueryRows ==
  \A i \in DOMAIN rpc : \A j \in DOMAIN rpc[i] :
    rpc[i][j] = "done" =>
      LET rows == UniqueIndexRows(tables[i][j].name, catalog)
      IN  IF rows = <<>>
          THEN tableDefs[i][j].uniqueIndex = NEVER
          ELSE SplitOn(tableDefs[i][j].uniqueIndex, " | ") = Quoted(rows)

\* the block of a materialized view was returned with the index the query found for it
C9_Witness ==
  \E i \in DOMAIN rpc : \E j \in DOMAIN rpc[i] :
    /\ rpc[i][j] = "done"
    /\ tables[i][j].type = "mview"
    /\ tableDefs[i][j].uniqueIndex = <<"'", "ab_idx", "'">>

----------------------------------------------------------------------------
(* Claim about the cross-table types, checked under SpecAgg *)

\* C8: for an empty relation list every union and every ...ForTable lookup is 'any'
\* (not 'never', not an empty mapping); for a non-empty list every union has exactly
\* one member per relation, in the order of the list.
C8_UnionsAnyOrOneMemberEach ==
  aggIn # <<>> =>
    LET relations == aggIn[1]
        types == aggOut[1]
    IN  IF relations = <<>>
        THEN /\ \A u \in Unions : types.unions[u] = <<"any">>
             /\ \A t \in Thingables : types.forTable[t] = <<"any">>
        ELSE \A u \in Unions :
               SplitOn(types.unions[u], " | ")
                 = [n \in 1..Len(relations) |-> relations[n].name \o <<".", u>>]

\* the empty relation list was aggregated
C8_Witness ==
  /\ aggIn = << <<>> >>
  /\ aggOut[1].noTablesComment
  /\ aggOut[1].unions["Table"] = <<"any">>

====
